---- MODULE Spec2Model ----
(***************************************************************************)
(* Model of SeatBookingSystem (src/main.py): the in-memory seat grid, the  *)
(* selection set, the set of issued booking references and the SQLite      *)
(* store behind one connection.  book_seats and free_seats are modelled    *)
(* statement by statement, because every execute()/commit() may raise      *)
(* sqlite3.Error and the handlers write to memory between those calls.     *)
(***************************************************************************)
EXTENDS Integers, Sequences, FiniteSets, TLC

VARIABLES
    seats,               \* self.seats: position -> (status, seat_type, booking_reference)
    selected_seats,      \* self.selected_seats
    booking_references,  \* self.booking_references
    db,                  \* the database file: what has been committed
    tx,                  \* what self.cursor sees: db plus the connection's uncommitted writes
    pc,                  \* position of the running handler ("idle": none running)
    passenger_info,      \* book_seats: its argument
    booking_reference,   \* book_seats: the local booking_reference
    todo,                \* the part of selected_seats / booking_refs_to_check a for loop has still to visit
    booking_refs_to_check, \* free_seats: the local booking_refs_to_check
    done_seats,          \* book_seats: booked_seats, free_seats: freed_seats (names, order dropped)
    result,              \* the last call and what it returned (or raised)
    pre                  \* history: the state at the entry of the last call

vars == <<seats, selected_seats, booking_references, db, tx, pc, passenger_info,
          booking_reference, todo, booking_refs_to_check, done_seats, result, pre>>

----------------------------------------------------------------------------
(* Sizes.  The cabin of the source is 7 x 80 with row D (index 3) the      *)
(* aisle, 15 storage columns and 30 first-class columns; the model builds  *)
(* the same layout on a 2 x 3 grid: one seat row and one aisle row, one    *)
(* storage column, one first-class column.  MaxRefs is the number of       *)
(* different strings the random sampler may return.                        *)

NumRows == 2
NumCols == 3
AisleRow == 1
StorageColumns == {2}
FirstClassCols == 1
RefLen == 8
MaxRefs == 2

Rows == 0 .. (NumRows - 1)
Cols == 0 .. (NumCols - 1)
Pos == Rows \X Cols

row_letters == <<"A", "B", "C", "D", "E", "F", "G">>

\* string.ascii_uppercase + string.digits
Alphabet ==
    {"A", "B", "C", "D", "E", "F", "G", "H", "I", "J", "K", "L", "M", "N", "O", "P", "Q",
     "R", "S", "T", "U", "V", "W", "X", "Y", "Z",
     "0", "1", "2", "3", "4", "5", "6", "7", "8", "9"}

\* Strings are sequences of characters; None is the empty sequence.
None == <<>>
StatusFree == <<"F">>
StatusAisle == <<"A">>
StatusStorage == <<"S">>

\* The outcomes of random.choices(...) the model draws from: MaxRefs of the
\* 36^8 strings of length RefLen.
LastChars == <<"A", "B", "0", "1", "Z", "9">>
SampledReference(i) == [k \in 1 .. RefLen |-> IF k < RefLen THEN "K" ELSE LastChars[i]]
Refs == {SampledReference(i) : i \in 1 .. MaxRefs}

\* The passenger_info arguments book_seats is called with: None (the default)
\* and the tuple the passenger dialog returns.
FilledPassenger == <<"P100", "Ann", "Lee">>
PassengerInputs == {None, FilledPassenger}

----------------------------------------------------------------------------
(* Pure helpers *)

\* mark_special_seats over the all-('F','Economy',None) grid of __init__
InitialSeat(p) ==
    IF p[1] = AisleRow THEN
        [status |-> StatusAisle, seat_type |-> "Aisle", booking_reference |-> None]
    ELSE IF p[2] \in StorageColumns THEN
        [status |-> StatusStorage, seat_type |-> "Storage", booking_reference |-> None]
    ELSE IF p[2] < FirstClassCols THEN
        [status |-> StatusFree, seat_type |-> "First", booking_reference |-> None]
    ELSE
        [status |-> StatusFree, seat_type |-> "Economy", booking_reference |-> None]

get_seat_name(p) == <<row_letters[p[1] + 1], p[2] + 1>>

is_booking_reference(status) ==
    /\ Len(status) = RefLen
    /\ \A k \in 1 .. Len(status) : status[k] \in Alphabet

\* One row of booked_seats.  The AUTOINCREMENT id is left out: two rows with the
\* same reference and seat would need an INSERT for a reference whose header is
\* already stored, which the primary key of bookings rejects first
\* (LinkRowsHaveHeader).
SeatRow(ref, p, seat_type) ==
    [booking_reference |-> ref, seat_row |-> row_letters[p[1] + 1],
     seat_column |-> p[2] + 1, seat_type |-> seat_type]

BookingRow(ref, passenger) ==
    [booking_reference |-> ref, passport_number |-> passenger[1],
     first_name |-> passenger[2], last_name |-> passenger[3]]

EmptyStore == [bookings |-> {}, booked_seats |-> {}]

\* SELECT COUNT(*) FROM booked_seats WHERE booking_reference = ?
CountSeats(store, ref) ==
    Cardinality({s \in store.booked_seats : s.booking_reference = ref})

HeaderRefs(store) == {b.booking_reference : b \in store.bookings}

\* the program's state as a call finds it; store is the database as the
\* program reads it, through its one connection
Snapshot ==
    [seats |-> seats, selected_seats |-> selected_seats,
     booking_references |-> booking_references, db |-> db, store |-> tx]

Returned(op, ok, msg, names, ref) ==
    [op |-> op, ok |-> ok, msg |-> msg, seats |-> names, ref |-> ref]

NoLocals ==
    /\ passenger_info' = None
    /\ booking_reference' = None
    /\ todo' = {}
    /\ booking_refs_to_check' = {}
    /\ done_seats' = {}

----------------------------------------------------------------------------
Init ==
    /\ seats = [p \in Pos |-> InitialSeat(p)]
    /\ selected_seats = {}
    /\ booking_references = {}
    /\ db = EmptyStore
    /\ tx = EmptyStore
    /\ pc = "idle"
    /\ passenger_info = None
    /\ booking_reference = None
    /\ todo = {}
    /\ booking_refs_to_check = {}
    /\ done_seats = {}
    /\ result = Returned("none", TRUE, "none", {}, None)
    /\ pre = [seats |-> [p \in Pos |-> InitialSeat(p)], selected_seats |-> {},
              booking_references |-> {}, db |-> EmptyStore, store |-> EmptyStore]

\* mutant: toggle_seat_selection without the removal branch of lines 125-127
ToggleOnlySelecting(p) ==
    /\ pc = "idle"
    /\ pre' = Snapshot
    /\ IF seats[p].status # StatusFree /\ ~is_booking_reference(seats[p].status) THEN
          /\ result' = Returned("toggle", FALSE, "NotSelectable", {}, None)
          /\ UNCHANGED selected_seats
       ELSE
          /\ selected_seats' = selected_seats \cup {p}
          /\ result' = Returned("toggle", TRUE, "Selected", {get_seat_name(p)}, None)
    /\ UNCHANGED <<seats, booking_references, db, tx, pc, passenger_info,
                   booking_reference, todo, booking_refs_to_check, done_seats>>

\* mutant: toggle_seat_selection without the status test of line 122
ToggleWithoutStatusTest(p) ==
    /\ pc = "idle"
    /\ pre' = Snapshot
    /\ IF p \in selected_seats THEN
          /\ selected_seats' = selected_seats \ {p}
          /\ result' = Returned("toggle", TRUE, "Unselected", {get_seat_name(p)}, None)
       ELSE
          /\ selected_seats' = selected_seats \cup {p}
          /\ result' = Returned("toggle", TRUE, "Selected", {get_seat_name(p)}, None)
    /\ UNCHANGED <<seats, booking_references, db, tx, pc, passenger_info,
                   booking_reference, todo, booking_refs_to_check, done_seats>>

\* toggle_seat_selection(row, col)
ToggleSeatSelection(p) ==
    /\ pc = "idle"
    /\ pre' = Snapshot
    /\ IF seats[p].status # StatusFree /\ ~is_booking_reference(seats[p].status) THEN
          /\ result' = Returned("toggle", FALSE, "NotSelectable", {}, None)
          /\ UNCHANGED selected_seats
       ELSE IF p \in selected_seats THEN
          /\ selected_seats' = selected_seats \ {p}
          /\ result' = Returned("toggle", TRUE, "Unselected", {get_seat_name(p)}, None)
       ELSE
          /\ selected_seats' = selected_seats \cup {p}
          /\ result' = Returned("toggle", TRUE, "Selected", {get_seat_name(p)}, None)
    /\ UNCHANGED <<seats, booking_references, db, tx, pc, passenger_info,
                   booking_reference, todo, booking_refs_to_check, done_seats>>

----------------------------------------------------------------------------
(* book_seats *)

\* mutant: the passenger test of line 143 before the selection test of line 139
BookSeatsPassengerFirst(p) ==
    /\ pc = "idle"
    /\ pre' = Snapshot
    /\ IF p = None THEN
          /\ result' = Returned("book", FALSE, "PassengerRequired", {}, None)
          /\ UNCHANGED <<pc, passenger_info>>
       ELSE IF selected_seats = {} THEN
          /\ result' = Returned("book", FALSE, "NoSeatsSelected", {}, None)
          /\ UNCHANGED <<pc, passenger_info>>
       ELSE
          /\ pc' = "generate"
          /\ passenger_info' = p
          /\ result' = Returned("book", FALSE, "running", {}, None)
    /\ UNCHANGED <<seats, selected_seats, booking_references, db, tx,
                   booking_reference, todo, booking_refs_to_check, done_seats>>

\* lines 139-146: the two early returns, then the unpacking of passenger_info
BookSeats(p) ==
    /\ pc = "idle"
    /\ pre' = Snapshot
    /\ IF selected_seats = {} THEN
          /\ result' = Returned("book", FALSE, "NoSeatsSelected", {}, None)
          /\ UNCHANGED <<pc, passenger_info>>
       ELSE IF p = None THEN
          /\ result' = Returned("book", FALSE, "PassengerRequired", {}, None)
          /\ UNCHANGED <<pc, passenger_info>>
       ELSE
          /\ pc' = "generate"
          /\ passenger_info' = p
          /\ result' = Returned("book", FALSE, "running", {}, None)
    /\ UNCHANGED <<seats, selected_seats, booking_references, db, tx,
                   booking_reference, todo, booking_refs_to_check, done_seats>>

\* mutant: the sample is returned without the membership test of line 288
GenerateWithoutUniquenessCheck(r) ==
    /\ pc = "generate"
    /\ booking_references' = booking_references \cup {r}
    /\ booking_reference' = r
    /\ pc' = "insert_booking"
    /\ UNCHANGED <<seats, selected_seats, db, tx, passenger_info, todo,
                   booking_refs_to_check, done_seats, result, pre>>

\* mutant: a fresh sample is returned without the add of line 290
GenerateWithoutRegistering(r) ==
    /\ pc = "generate"
    /\ IF r \notin booking_references THEN
          /\ booking_reference' = r
          /\ pc' = "insert_booking"
       ELSE
          UNCHANGED <<booking_reference, pc>>
    /\ UNCHANGED <<seats, selected_seats, booking_references, db, tx, passenger_info,
                   todo, booking_refs_to_check, done_seats, result, pre>>

\* generate_booking_reference, one pass of its while loop with the sample r
GenerateBookingReference(r) ==
    /\ pc = "generate"
    /\ IF r \notin booking_references THEN
          /\ booking_references' = booking_references \cup {r}
          /\ booking_reference' = r
          /\ pc' = "insert_booking"
       ELSE
          UNCHANGED <<booking_references, booking_reference, pc>>
    /\ UNCHANGED <<seats, selected_seats, db, tx, passenger_info, todo,
                   booking_refs_to_check, done_seats, result, pre>>

\* mutant: the except branch also clears the selection
BookRollbackClearingSelection ==
    /\ tx' = db
    /\ pc' = "idle"
    /\ result' = Returned("book", FALSE, "DatabaseError", {}, None)
    /\ NoLocals
    /\ selected_seats' = {}
    /\ UNCHANGED <<booking_references, db, pre>>

\* lines 181-184: except sqlite3.Error in book_seats
BookRollback ==
    /\ tx' = db
    /\ pc' = "idle"
    /\ result' = Returned("book", FALSE, "DatabaseError", {}, None)
    /\ NoLocals
    /\ UNCHANGED <<selected_seats, booking_references, db, pre>>

\* lines 154-157: INSERT INTO bookings; the primary key rejects a reference
\* the table already holds
InsertBooking ==
    /\ pc = "insert_booking"
    /\ booking_reference \notin HeaderRefs(tx)
    /\ tx' = [tx EXCEPT !.bookings = @ \cup {BookingRow(booking_reference, passenger_info)}]
    /\ pc' = "book_loop"
    /\ todo' = selected_seats
    /\ done_seats' = {}
    /\ UNCHANGED <<seats, selected_seats, booking_references, db, passenger_info,
                   booking_reference, booking_refs_to_check, result, pre>>

InsertBookingRaises ==
    /\ pc = "insert_booking"
    /\ BookRollback
    /\ UNCHANGED seats

\* line 165: the write to self.seats[row][col]
BookSeatInMemory(p) ==
    [seats EXCEPT ![p] = [status |-> booking_reference, seat_type |-> seats[p].seat_type,
                          booking_reference |-> booking_reference]]

\* mutant: line 164 also lets a seat through that shows a booking reference
BookLoopOverwritingReserved(p) ==
    /\ pc = "book_loop"
    /\ p \in todo
    /\ IF seats[p].status = StatusFree \/ is_booking_reference(seats[p].status) THEN
          /\ seats' = BookSeatInMemory(p)
          /\ tx' = [tx EXCEPT !.booked_seats =
                       @ \cup {SeatRow(booking_reference, p, seats[p].seat_type)}]
          /\ done_seats' = done_seats \cup {get_seat_name(p)}
       ELSE
          UNCHANGED <<seats, tx, done_seats>>
    /\ todo' = todo \ {p}
    /\ UNCHANGED <<selected_seats, booking_references, db, pc, passenger_info,
                   booking_reference, booking_refs_to_check, result, pre>>

\* mutant: the iteration without the status == 'F' test of line 164
BookLoopWithoutFreeTest(p) ==
    /\ pc = "book_loop"
    /\ p \in todo
    /\ seats' = BookSeatInMemory(p)
    /\ tx' = [tx EXCEPT !.booked_seats =
                 @ \cup {SeatRow(booking_reference, p, seats[p].seat_type)}]
    /\ done_seats' = done_seats \cup {get_seat_name(p)}
    /\ todo' = todo \ {p}
    /\ UNCHANGED <<selected_seats, booking_references, db, pc, passenger_info,
                   booking_reference, booking_refs_to_check, result, pre>>

\* lines 161-173: one iteration of the loop over selected_seats
BookLoop(p) ==
    /\ pc = "book_loop"
    /\ p \in todo
    /\ IF seats[p].status = StatusFree THEN
          /\ seats' = BookSeatInMemory(p)
          /\ tx' = [tx EXCEPT !.booked_seats =
                       @ \cup {SeatRow(booking_reference, p, seats[p].seat_type)}]
          /\ done_seats' = done_seats \cup {get_seat_name(p)}
       ELSE
          UNCHANGED <<seats, tx, done_seats>>
    /\ todo' = todo \ {p}
    /\ UNCHANGED <<selected_seats, booking_references, db, pc, passenger_info,
                   booking_reference, booking_refs_to_check, result, pre>>

\* the same iteration when the INSERT INTO booked_seats of line 168 raises
BookLoopRaises(p) ==
    /\ pc = "book_loop"
    /\ p \in todo
    /\ seats[p].status = StatusFree
    /\ seats' = BookSeatInMemory(p)
    /\ BookRollback

\* lines 176-179: commit, clear the selection, return
BookCommit ==
    /\ pc = "book_loop"
    /\ todo = {}
    /\ db' = tx
    /\ selected_seats' = {}
    /\ pc' = "idle"
    /\ result' = Returned("book", TRUE, "Booked", done_seats, booking_reference)
    /\ NoLocals
    /\ UNCHANGED <<seats, booking_references, tx, pre>>

BookCommitRaises ==
    /\ pc = "book_loop"
    /\ todo = {}
    /\ BookRollback
    /\ UNCHANGED seats

----------------------------------------------------------------------------
(* free_seats *)

\* lines 188-192: the early return, then the two empty locals
FreeSeats ==
    /\ pc = "idle"
    /\ pre' = Snapshot
    /\ IF selected_seats = {} THEN
          /\ result' = Returned("free", FALSE, "NoSeatsSelected", {}, None)
          /\ UNCHANGED <<pc, todo>>
       ELSE
          /\ pc' = "free_loop"
          /\ todo' = selected_seats
          /\ result' = Returned("free", FALSE, "running", {}, None)
    /\ UNCHANGED <<seats, selected_seats, booking_references, db, tx, passenger_info,
                   booking_reference, booking_refs_to_check, done_seats>>

\* lines 227-230: except sqlite3.Error in free_seats
FreeRollback ==
    /\ tx' = db
    /\ pc' = "idle"
    /\ result' = Returned("free", FALSE, "DatabaseError", {}, None)
    /\ NoLocals
    /\ UNCHANGED <<selected_seats, db, pre>>

\* line 201: the write to self.seats[row][col]
FreeSeatInMemory(p) ==
    [seats EXCEPT ![p] = [status |-> StatusFree, seat_type |-> seats[p].seat_type,
                          booking_reference |-> None]]

\* lines 204-207: DELETE FROM booked_seats WHERE booking_reference, seat_row, seat_column
DeleteSeatRows(store, ref, p) ==
    [store EXCEPT !.booked_seats =
        {s \in @ : ~(/\ s.booking_reference = ref
                     /\ s.seat_row = row_letters[p[1] + 1]
                     /\ s.seat_column = p[2] + 1)}]

\* lines 195-209: one iteration of the loop over selected_seats
FreeLoop(p) ==
    /\ pc = "free_loop"
    /\ p \in todo
    /\ IF is_booking_reference(seats[p].status) THEN
          /\ booking_refs_to_check' = booking_refs_to_check \cup {seats[p].status}
          /\ seats' = FreeSeatInMemory(p)
          /\ tx' = DeleteSeatRows(tx, seats[p].status, p)
          /\ done_seats' = done_seats \cup {get_seat_name(p)}
       ELSE
          UNCHANGED <<booking_refs_to_check, seats, tx, done_seats>>
    /\ todo' = todo \ {p}
    /\ UNCHANGED <<selected_seats, booking_references, db, pc, passenger_info,
                   booking_reference, result, pre>>

\* the same iteration when the DELETE of line 204 raises
FreeLoopRaises(p) ==
    /\ pc = "free_loop"
    /\ p \in todo
    /\ is_booking_reference(seats[p].status)
    /\ seats' = FreeSeatInMemory(p)
    /\ FreeRollback
    /\ UNCHANGED booking_references

\* line 212: the first loop is over, the loop over booking_refs_to_check starts
FreeLoopEnd ==
    /\ pc = "free_loop"
    /\ todo = {}
    /\ pc' = "check_loop"
    /\ todo' = booking_refs_to_check
    /\ UNCHANGED <<seats, selected_seats, booking_references, db, tx, passenger_info,
                   booking_reference, booking_refs_to_check, done_seats, result, pre>>

\* line 218: DELETE FROM bookings WHERE booking_reference = ?
DeleteBooking(store, ref) ==
    [store EXCEPT !.bookings = {b \in @ : b.booking_reference # ref}]

\* mutant: the header is deleted without the count == 0 test of line 217
CheckLoopDeletingAlways(ref) ==
    /\ pc = "check_loop"
    /\ ref \in todo
    /\ ref \in booking_references
    /\ tx' = DeleteBooking(tx, ref)
    /\ booking_references' = booking_references \ {ref}
    /\ todo' = todo \ {ref}
    /\ UNCHANGED <<seats, selected_seats, db, pc, passenger_info, booking_reference,
                   booking_refs_to_check, done_seats, result, pre>>

\* lines 212-219: one iteration of the loop over booking_refs_to_check;
\* set.remove is defined only for a member (see CheckLoopKeyError)
CheckLoop(ref) ==
    /\ pc = "check_loop"
    /\ ref \in todo
    /\ IF CountSeats(tx, ref) = 0 THEN
          /\ ref \in booking_references
          /\ tx' = DeleteBooking(tx, ref)
          /\ booking_references' = booking_references \ {ref}
       ELSE
          UNCHANGED <<tx, booking_references>>
    /\ todo' = todo \ {ref}
    /\ UNCHANGED <<seats, selected_seats, db, pc, passenger_info, booking_reference,
                   booking_refs_to_check, done_seats, result, pre>>

\* line 219 on a reference that is not in the set: KeyError, which neither
\* except clause catches; free_seats ends without commit and without rollback
CheckLoopKeyError(ref) ==
    /\ pc = "check_loop"
    /\ ref \in todo
    /\ CountSeats(tx, ref) = 0
    /\ ref \notin booking_references
    /\ tx' = DeleteBooking(tx, ref)
    /\ pc' = "idle"
    /\ result' = Returned("free", FALSE, "KeyError", {}, None)
    /\ NoLocals
    /\ UNCHANGED <<seats, selected_seats, booking_references, db, pre>>

\* the same iteration when the SELECT of line 213 or the DELETE of line 218 raises
CheckLoopRaises(ref) ==
    /\ pc = "check_loop"
    /\ ref \in todo
    /\ FreeRollback
    /\ UNCHANGED <<seats, booking_references>>

\* mutant: free_seats without the clear of line 224
FreeCommitKeepingSelection ==
    /\ pc = "check_loop"
    /\ todo = {}
    /\ db' = tx
    /\ pc' = "idle"
    /\ result' = Returned("free", TRUE, "Freed", done_seats, None)
    /\ NoLocals
    /\ UNCHANGED <<seats, selected_seats, booking_references, tx, pre>>

\* lines 222-225: commit, clear the selection, return
FreeCommit ==
    /\ pc = "check_loop"
    /\ todo = {}
    /\ db' = tx
    /\ selected_seats' = {}
    /\ pc' = "idle"
    /\ result' = Returned("free", TRUE, "Freed", done_seats, None)
    /\ NoLocals
    /\ UNCHANGED <<seats, booking_references, tx, pre>>

FreeCommitRaises ==
    /\ pc = "check_loop"
    /\ todo = {}
    /\ FreeRollback
    /\ UNCHANGED <<seats, booking_references>>

----------------------------------------------------------------------------
(* get_seat_status, and the start of the program on an existing database *)

\* lines 232-268: what get_seat_status reports for position p; select_raises
\* is whether the SELECT on bookings raises (the except clause passes)
get_seat_status(p, select_raises) ==
    LET status == seats[p].status
        found == {b \in tx.bookings : b.booking_reference = status}
    IN  IF is_booking_reference(status) THEN
            IF ~select_raises /\ found # {} THEN
                LET b == CHOOSE x \in found : TRUE
                IN  [seat |-> get_seat_name(p), text |-> "Reserved",
                     seat_type |-> seats[p].seat_type, reference |-> status,
                     passenger |-> <<b.passport_number, b.first_name, b.last_name>>]
            ELSE
                [seat |-> get_seat_name(p), text |-> "Reserved",
                 seat_type |-> seats[p].seat_type, reference |-> status,
                 passenger |-> None]
        ELSE
            [seat |-> get_seat_name(p),
             text |-> IF status = StatusFree THEN "Free"
                      ELSE IF status = StatusAisle THEN "Aisle"
                      ELSE IF status = StatusStorage THEN "Storage"
                      ELSE "Unknown",
             seat_type |-> seats[p].seat_type, reference |-> None, passenger |-> None]

\* line 84: self.row_letters.index(row_letter)
RowIndex(row_letter) ==
    CHOOSE i \in 0 .. (Len(row_letters) - 1) : row_letters[i + 1] = row_letter

\* mutant: the stored column used as the index, without the - 1 of line 86
ColIndexUnshifted(col_num) == col_num

\* line 86: the column is 1-indexed in the database
ColIndex(col_num) == col_num - 1

\* lines 82-88: the rows of booked_seats that land on position p
LoadedRowsAt(store, p) ==
    {s \in store.booked_seats :
        /\ RowIndex(s.seat_row) = p[1]
        /\ ColIndex(s.seat_column) = p[2]
        /\ 0 <= RowIndex(s.seat_row) /\ RowIndex(s.seat_row) < NumRows
        /\ 0 <= ColIndex(s.seat_column) /\ ColIndex(s.seat_column) < NumCols}

\* line 90: what a row writes into its seat
LoadedSeat(s) ==
    [status |-> s.booking_reference, seat_type |-> s.seat_type,
     booking_reference |-> s.booking_reference]

\* lines 70-92: the grids load_bookings_from_database can leave, starting from
\* the grid of mark_special_seats.  The SELECT has no ORDER BY: when several
\* rows name one seat, any of them may come last and stay.  LoadedGridsOver
\* goes through the seats ps that have a row.
RECURSIVE LoadedGridsOver(_, _)
LoadedGridsOver(store, ps) ==
    IF ps = {} THEN {[p \in Pos |-> InitialSeat(p)]}
    ELSE LET p == CHOOSE x \in ps : TRUE
         IN  {[q \in Pos |-> IF q = p THEN LoadedSeat(s) ELSE g[q]] :
                 g \in LoadedGridsOver(store, ps \ {p}), s \in LoadedRowsAt(store, p)}

LoadedGrids(store) ==
    LoadedGridsOver(store, {p \in Pos : LoadedRowsAt(store, p) # {}})

\* lines 478-482 then 10-24: the window is closed (the connection closes, its
\* uncommitted writes are lost) and the program is started again on the file
Restart ==
    /\ pc = "idle"
    /\ pre' = Snapshot
    /\ seats' \in LoadedGrids(db)
    /\ selected_seats' = {}
    /\ booking_references' = HeaderRefs(db)
    /\ tx' = db
    /\ result' = Returned("restart", TRUE, "Started", {}, None)
    /\ UNCHANGED <<db, pc, passenger_info, booking_reference, todo,
                   booking_refs_to_check, done_seats>>

----------------------------------------------------------------------------
Next ==
    \/ \E p \in Pos : ToggleSeatSelection(p)
    \/ \E p \in PassengerInputs : BookSeats(p)
    \/ \E r \in Refs : GenerateBookingReference(r)
    \/ InsertBooking
    \/ InsertBookingRaises
    \/ \E p \in Pos : BookLoop(p)
    \/ \E p \in Pos : BookLoopRaises(p)
    \/ BookCommit
    \/ BookCommitRaises
    \/ FreeSeats
    \/ \E p \in Pos : FreeLoop(p)
    \/ \E p \in Pos : FreeLoopRaises(p)
    \/ FreeLoopEnd
    \/ \E ref \in Refs : CheckLoop(ref)
    \/ \E ref \in Refs : CheckLoopKeyError(ref)
    \/ \E ref \in Refs : CheckLoopRaises(ref)
    \/ FreeCommit
    \/ FreeCommitRaises

Spec == Init /\ [][Next]_vars

\* The program when no execute() and no commit() raises: every call that
\* passes its early returns ends in its commit.  The program may be closed and
\* started again between calls.
NextWithoutFaults ==
    \/ \E p \in Pos : ToggleSeatSelection(p)
    \/ \E p \in PassengerInputs : BookSeats(p)
    \/ \E r \in Refs : GenerateBookingReference(r)
    \/ InsertBooking
    \/ \E p \in Pos : BookLoop(p)
    \/ BookCommit
    \/ FreeSeats
    \/ \E p \in Pos : FreeLoop(p)
    \/ FreeLoopEnd
    \/ \E ref \in Refs : CheckLoop(ref)
    \/ FreeCommit
    \/ Restart

SpecWithoutFaults == Init /\ [][NextWithoutFaults]_vars

\* random.choices draws uniformly from the strings of length RefLen, so while
\* some string is not in booking_references the loop of lines 283-291 draws
\* such a string with probability 1: the pass that returns is taken when it
\* stays possible.
SpecFair == Spec /\ WF_vars(\E r \in Refs : GenerateBookingReference(r))

\* book_seats is a public method: besides what the dialog returns it can be
\* handed a tuple whose three fields are empty strings.  Line 143 tests the
\* tuple, not its fields.
EmptyPassenger == <<"", "", "">>

NextAnyPassenger ==
    \/ Next
    \/ BookSeats(EmptyPassenger)

SpecAnyPassenger == Init /\ [][NextAnyPassenger]_vars

----------------------------------------------------------------------------
(* Sanity of the model *)

TypeOK ==
    /\ selected_seats \subseteq Pos
    /\ booking_references \subseteq Refs
    /\ pc \in {"idle", "generate", "insert_booking", "book_loop", "free_loop", "check_loop"}
    /\ \A p \in Pos : seats[p].status \in {StatusFree, StatusAisle, StatusStorage} \cup Refs
    /\ pc = "idle" => (todo = {} /\ done_seats = {} /\ booking_reference = None)

\* every row of booked_seats names a stored header, in the file and in the
\* connection's view of it
LinkRowsHaveHeader ==
    /\ \A s \in db.booked_seats : s.booking_reference \in HeaderRefs(db)
    /\ \A s \in tx.booked_seats : s.booking_reference \in HeaderRefs(tx)

\* Under SpecWithoutFaults the two raising steps that are not injected faults
\* never become enabled: the INSERT of line 154 never meets a stored reference
\* and the remove of line 219 always finds its member.
WithoutFaultsNothingRaises ==
    /\ pc = "insert_booking" => booking_reference \notin HeaderRefs(tx)
    /\ pc = "check_loop" =>
           \A ref \in todo : CountSeats(tx, ref) = 0 => ref \in booking_references

----------------------------------------------------------------------------
(* Vocabulary of the properties *)

Idle == pc = "idle"
BookFailed == Idle /\ result.op = "book" /\ result.msg = "DatabaseError"
FreeFailed == Idle /\ result.op = "free" /\ result.msg = "DatabaseError"
BookSucceeded == Idle /\ result.op = "book" /\ result.msg = "Booked"
FreeSucceeded == Idle /\ result.op = "free" /\ result.msg = "Freed"
InTransaction == pc \in {"insert_booking", "book_loop", "free_loop", "check_loop"}

\* the selected seats that were Free / Reserved when the last call started
PreSelectedFree == {p \in pre.selected_seats : pre.seats[p].status = StatusFree}
PreSelectedReserved ==
    {p \in pre.selected_seats : is_booking_reference(pre.seats[p].status)}
\* the seats that showed reference r when the last call started
PreSeatsOf(r) == {p \in Pos : pre.seats[p].status = r}
\* the seat rows a store holds for reference r, and the seats they name
RowsOf(store, r) == {s \in store.booked_seats : s.booking_reference = r}
StoredSeatsOf(store, r) ==
    {p \in Pos : \E s \in RowsOf(store, r) :
        s.seat_row = row_letters[p[1] + 1] /\ s.seat_column = p[2] + 1}

\* the seat rows a store holds for position p, whatever their reference
RowsAt(store, p) ==
    {s \in store.booked_seats :
        s.seat_row = row_letters[p[1] + 1] /\ s.seat_column = p[2] + 1}

----------------------------------------------------------------------------
(* Claims *)

\* C1: between calls, every booking header of the store has at least one
\* seat row attached to it.
C1_EveryHeaderHasASeat ==
    Idle => \A b \in tx.bookings : CountSeats(tx, b.booking_reference) >= 1

\* C2: between calls, a seat carries a booking reference exactly when its
\* status is Reserved, and that reference is the key of a stored header.
C2_BookingRefIffReservedAndStored ==
    Idle =>
        \A p \in Pos :
            /\ (seats[p].booking_reference # None) <=> is_booking_reference(seats[p].status)
            /\ seats[p].booking_reference # None =>
                   seats[p].booking_reference \in HeaderRefs(tx)

\* C3: while book_seats or free_seats has its transaction open (nothing
\* committed yet), the seat map is still the one the call started with.
C3_SeatMapUntouchedUntilCommit ==
    InTransaction => seats = pre.seats

\* C4: a book_seats call that ends in a database error leaves the store and
\* every seat as they were when it was called.
C4_FailedBookChangesNothing ==
    BookFailed => (db = pre.db /\ seats = pre.seats)

\* C5: a book_seats call that ends in a database error leaves the set of
\* booking references as it was when it was called.
C5_FailedBookLeavesNoReference ==
    BookFailed => booking_references = pre.booking_references

\* C6: a free_seats call that ends in a database error leaves the store,
\* every seat and the set of booking references as they were when it was called.
C6_FailedFreeChangesNothing ==
    FreeFailed =>
        /\ db = pre.db
        /\ seats = pre.seats
        /\ booking_references = pre.booking_references

\* C7: a book_seats or free_seats call that ends in a database error leaves
\* the selection exactly as it was when it was called.
C7_FailureKeepsSelection ==
    (BookFailed \/ FreeFailed) => selected_seats = pre.selected_seats

\* C7 witness: a failed free_seats over a selection with a Reserved seat in it
C7_Witness ==
    /\ FreeFailed
    /\ PreSelectedReserved # {}
    /\ selected_seats # {}

\* C8: a header leaves the store exactly when its last seat is freed.  After
\* a successful free_seats, every reference that had a selected Reserved
\* seat and has no seat row left has no header and is out of the set of
\* references, and every freed seat is Free with no reference; every header
\* that left the store is one of those; and no call other than a successful
\* free_seats removes a header.
C8_HeaderDeletedExactlyWithLastSeat ==
    /\ FreeSucceeded =>
          /\ \A p \in PreSelectedReserved :
                /\ seats[p].status = StatusFree
                /\ seats[p].booking_reference = None
                /\ CountSeats(tx, pre.seats[p].status) = 0 =>
                      /\ pre.seats[p].status \notin HeaderRefs(tx)
                      /\ pre.seats[p].status \notin booking_references
          /\ \A r \in HeaderRefs(pre.store) \ HeaderRefs(tx) :
                /\ CountSeats(tx, r) = 0
                /\ \E p \in PreSelectedReserved : pre.seats[p].status = r
    /\ (Idle /\ ~FreeSucceeded) => HeaderRefs(pre.store) \subseteq HeaderRefs(tx)

\* C9: after a successful free_seats that freed some but not all of the
\* seats of a booking (a stored header whose seat rows are the seats that
\* show its reference), the header is still stored, the reference is still
\* in the set of references, the seats not selected still show it, and its
\* seat rows are as many as the seats not freed.
C9_PartialFreeKeepsBooking ==
    FreeSucceeded =>
        \A r \in HeaderRefs(pre.store) :
            (/\ StoredSeatsOf(pre.store, r) = PreSeatsOf(r)
             /\ PreSeatsOf(r) \cap pre.selected_seats # {}
             /\ PreSeatsOf(r) \ pre.selected_seats # {})
            => /\ r \in HeaderRefs(tx)
               /\ r \in booking_references
               /\ \A p \in PreSeatsOf(r) \ pre.selected_seats :
                     /\ seats[p].status = r
                     /\ seats[p].booking_reference = r
               /\ CountSeats(tx, r) = Cardinality(PreSeatsOf(r) \ pre.selected_seats)
               /\ StoredSeatsOf(tx, r) = PreSeatsOf(r) \ pre.selected_seats

\* C9 witness: a successful free_seats that freed one seat of a two-seat booking
C9_Witness ==
    /\ FreeSucceeded
    /\ \E r \in HeaderRefs(pre.store) :
          /\ StoredSeatsOf(pre.store, r) = PreSeatsOf(r)
          /\ Cardinality(PreSeatsOf(r)) = 2
          /\ Cardinality(PreSeatsOf(r) \cap pre.selected_seats) = 1
          /\ CountSeats(tx, r) = 1

\* C10: a successful book_seats over a selection with k >= 1 Free seats adds
\* exactly one header and one reference, both the returned one, which was not
\* the key of any header of the store; the k seats show that reference and the
\* store holds exactly their k seat rows for it.
C10_BookCreatesOneBooking ==
    (BookSucceeded /\ PreSelectedFree # {}) =>
        /\ is_booking_reference(result.ref)
        /\ result.ref \notin HeaderRefs(pre.store)
        /\ result.ref \notin pre.booking_references
        /\ tx = db
        /\ db.bookings \ pre.store.bookings = {BookingRow(result.ref, FilledPassenger)}
        /\ booking_references \ pre.booking_references = {result.ref}
        /\ \A p \in PreSelectedFree :
              /\ seats[p].status = result.ref
              /\ seats[p].booking_reference = result.ref
        /\ RowsOf(db, result.ref)
               = {SeatRow(result.ref, p, pre.seats[p].seat_type) : p \in PreSelectedFree}
        /\ CountSeats(db, result.ref) = Cardinality(PreSelectedFree)

\* C10 witness: a successful book_seats that booked two seats together
C10_Witness ==
    /\ BookSucceeded
    /\ Cardinality(PreSelectedFree) = 2
    /\ CountSeats(db, result.ref) = 2

\* C11: from its entry on, a book_seats call writes only seats that were
\* selected and Free when it started, and a selected Reserved seat keeps its
\* record and every seat row the store held for it; a free_seats call writes
\* only seats that were selected and Reserved when it started, and the rows of
\* all other seats stay in the store.
C11_OnlySelectedSeatsOfTheRightStatusChange ==
    /\ result.op = "book" =>
          /\ \A p \in Pos \ PreSelectedFree : seats[p] = pre.seats[p]
          /\ \A p \in PreSelectedReserved : RowsAt(pre.store, p) \subseteq RowsAt(tx, p)
    /\ result.op = "free" =>
          /\ \A p \in Pos \ PreSelectedReserved : seats[p] = pre.seats[p]
          /\ \A p \in Pos \ PreSelectedReserved : RowsAt(pre.store, p) \subseteq RowsAt(tx, p)

\* C11 witness: a successful book_seats whose selection held a Free seat and a
\* Reserved seat with its row in the store
C11_Witness ==
    /\ BookSucceeded
    /\ PreSelectedFree # {}
    /\ \E p \in PreSelectedReserved : RowsAt(pre.store, p) # {}

\* C12: when no call has failed, starting the program again on the database
\* file gives every seat the status and the booking reference it had in
\* memory before, get_seat_status finds the passenger of every Reserved seat,
\* and booking_references holds the reference of every stored header.
C12_RestartRoundTrip ==
    result.op = "restart" =>
        /\ \A p \in Pos :
              /\ seats[p].status = pre.seats[p].status
              /\ seats[p].booking_reference = pre.seats[p].booking_reference
        /\ \A p \in Pos : is_booking_reference(seats[p].status) =>
              get_seat_status(p, FALSE).passenger = FilledPassenger
        /\ HeaderRefs(db) \subseteq booking_references

\* C12 witness: a restart on a file that holds two bookings, each with a seat
C12_Witness ==
    /\ result.op = "restart"
    /\ Cardinality({seats[p].status : p \in Pos} \cap Refs) = 2
    /\ Cardinality(HeaderRefs(db)) = 2

\* C13: generate_booking_reference, entered while some string is not yet in
\* booking_references, returns; and what it returns was not in
\* booking_references when it was called and is in it afterwards (so the next
\* call cannot return it again).
C13_GeneratorReturnsNewReference ==
    /\ [][(pc = "generate" /\ pc' # "generate") =>
             /\ pc' = "insert_booking"
             /\ booking_reference' \notin booking_references
             /\ booking_reference' \in booking_references'
             /\ booking_references' = booking_references \cup {booking_reference'}]_vars
    /\ (pc = "generate" /\ booking_references # Refs) ~> (pc = "insert_booking")

\* C13 witness: the generator has just returned to a call that found
\* booking_references non-empty, so a sample could have collided
C13_Witness ==
    /\ pc = "insert_booking"
    /\ pre.booking_references # {}
    /\ booking_reference \in booking_references \ pre.booking_references

\* C14: when booking_references already holds every string the sampler can
\* return, generate_booking_reference still ends (with a failure, after a
\* bounded number of samples): in that state some step of the program changes
\* the state, the call does not spin in its loop forever.
C14_FullRegistryEndsTheCall ==
    (pc = "generate" /\ booking_references = Refs) => ENABLED <<Next>>_vars

\* C15: in every reachable state booking_references holds the reference of
\* every header the store holds (the store as the connection reads it), so the
\* reference generate_booking_reference hands to book_seats is never one the
\* bookings table already has.
C15_RegistryHoldsEveryStoredReference ==
    /\ HeaderRefs(tx) \subseteq booking_references
    /\ pc = "insert_booking" => booking_reference \notin HeaderRefs(tx)

\* C16: in every step of toggle_seat_selection, book_seats and free_seats a
\* seat's status either stays, or goes from 'F' to a booking reference inside
\* the loop of book_seats, or from a booking reference to 'F' inside the loop
\* of free_seats.  So an Aisle or Storage seat stays one and no seat becomes
\* one.  (get_seat_status assigns nothing; Restart, which reloads the grid, is
\* not one of these steps.)
C16_StatusChangesOnlyByBookAndFree ==
    [][result'.op \in {"toggle", "book", "free"} =>
          \A p \in Pos :
              \/ seats'[p].status = seats[p].status
              \/ /\ pc = "book_loop" /\ result.op = "book"
                 /\ seats[p].status = StatusFree
                 /\ is_booking_reference(seats'[p].status)
              \/ /\ pc = "free_loop" /\ result.op = "free"
                 /\ is_booking_reference(seats[p].status)
                 /\ seats'[p].status = StatusFree]_vars

\* C16 witness: a seat went from Free to Reserved in one call and is back to
\* Free after a free_seats, while the Aisle and Storage seats are as built
C16_Witness ==
    /\ FreeSucceeded
    /\ \E p \in PreSelectedReserved : seats[p].status = StatusFree
    /\ \A p \in Pos : InitialSeat(p).status \in {StatusAisle, StatusStorage} =>
           seats[p] = InitialSeat(p)

\* C17: toggle_seat_selection on an Aisle or Storage position returns
\* (False, None) and changes neither the selection nor anything else of the
\* program's state; so selected_seats never holds an Aisle or Storage position.
C17_AisleAndStorageAreNotSelectable ==
    /\ [](\A p \in selected_seats : seats[p].status \notin {StatusAisle, StatusStorage})
    /\ [][\A p \in Pos :
             (seats[p].status \in {StatusAisle, StatusStorage} /\ ToggleSeatSelection(p)) =>
                 /\ result'.ok = FALSE
                 /\ result'.msg = "NotSelectable"
                 /\ UNCHANGED <<seats, selected_seats, booking_references, db, tx>>]_vars

\* C17 witness: a toggle was refused while a seat was selected, and the
\* selection is as before
C17_Witness ==
    /\ result.op = "toggle"
    /\ result.msg = "NotSelectable"
    /\ selected_seats # {}
    /\ selected_seats = pre.selected_seats

\* C18: book_seats with a non-empty selection and a passenger whose passport
\* number, first name and last name are empty is refused and changes nothing:
\* the call never gets past its validation (no reference is generated, no
\* header is written for such a passenger), and a refused call leaves seats,
\* selection, references and store as they were.
C18_EmptyPassengerIsRejected ==
    /\ passenger_info # EmptyPassenger
    /\ \A b \in tx.bookings :
           <<b.passport_number, b.first_name, b.last_name>> # EmptyPassenger
    /\ (result.op = "book" /\ result.msg = "PassengerRequired") =>
           /\ pc = "idle"
           /\ seats = pre.seats
           /\ selected_seats = pre.selected_seats
           /\ booking_references = pre.booking_references
           /\ tx = pre.store
           /\ db = pre.db

\* C19: book_seats and free_seats called with nothing selected return
\* (False, "No seats selected") at once, whatever the passenger argument of
\* book_seats is, and leave seats, selection, booking_references and the store
\* as they were; no reference is generated.
C19_EmptySelectionIsRefused ==
    (result.op \in {"book", "free"} /\ pre.selected_seats = {}) =>
        /\ pc = "idle"
        /\ result.ok = FALSE
        /\ result.msg = "NoSeatsSelected"
        /\ seats = pre.seats
        /\ selected_seats = {}
        /\ booking_references = pre.booking_references
        /\ booking_reference = None
        /\ tx = pre.store
        /\ db = pre.db

\* C19 witness: book_seats was refused for an empty selection while the cabin
\* already held a booking
C19_Witness ==
    /\ result.op = "book"
    /\ result.msg = "NoSeatsSelected"
    /\ pre.selected_seats = {}
    /\ HeaderRefs(db) # {}

\* C20: after a book_seats or free_seats call that got past its early returns
\* and whose commit went through, selected_seats is empty; also when the call
\* had nothing to do (book_seats with no Free seat selected, free_seats with no
\* Reserved seat selected).
C20_SuccessClearsSelection ==
    (BookSucceeded \/ FreeSucceeded) =>
        /\ pre.selected_seats # {}
        /\ selected_seats = {}

\* C20 witness: a free_seats that succeeded over a selection without a
\* Reserved seat
C20_Witness ==
    /\ FreeSucceeded
    /\ pre.selected_seats # {}
    /\ PreSelectedReserved = {}
    /\ selected_seats = {}

\* C21: toggle_seat_selection never changes seats, booking_references or the
\* store; on a Free or Reserved seat it succeeds; and when it follows a
\* successful toggle_seat_selection of the same seat, it reports the opposite
\* ("Unselected" after "Selected" and the reverse) and selected_seats is again
\* what it was before the first of the two calls.
C21_ToggleTwiceRestoresSelection ==
    [][\A p \in Pos : ToggleSeatSelection(p) =>
          /\ UNCHANGED <<seats, booking_references, db, tx>>
          /\ (seats[p].status = StatusFree \/ is_booking_reference(seats[p].status)) =>
                 result'.ok
          /\ (result.op = "toggle" /\ result.ok /\ result.seats = {get_seat_name(p)}) =>
                 /\ result'.ok
                 /\ result'.msg = IF result.msg = "Selected" THEN "Unselected" ELSE "Selected"
                 /\ selected_seats' = pre.selected_seats]_vars

\* C21 witness: a Reserved seat was unselected by the second of two toggles
\* while another seat stayed selected
C21_Witness ==
    /\ result.op = "toggle"
    /\ result.msg = "Unselected"
    /\ selected_seats # {}
    /\ \E p \in Pos :
          /\ result.seats = {get_seat_name(p)}
          /\ is_booking_reference(seats[p].status)
          /\ p \in pre.selected_seats
          /\ p \notin selected_seats

\* C22: between calls, whether the last call succeeded or ended in a database
\* error, a seat shows booking reference r in self.seats exactly when the
\* database file holds a booked_seats row for r and that seat.
C22_SeatMapMatchesStore ==
    Idle =>
        \A p \in Pos : \A r \in Refs :
            (seats[p].status = r) <=> (\E s \in RowsAt(db, p) : s.booking_reference = r)

\* C23: in every reachable state the store, as committed and as the
\* connection reads it, holds at most one booked_seats row for a seat
\* position: no seat is attached to two bookings.
C23_OneSeatRowPerPosition ==
    \A p \in Pos :
        /\ Cardinality(RowsAt(db, p)) <= 1
        /\ Cardinality(RowsAt(tx, p)) <= 1
====
